---- MODULE Spec2Model ----
(***************************************************************************)
(* Model of utility_fs_train.py: command-line parsing (get_input_args),    *)
(* the configuration print-out (print_input_args), the path resolver       *)
(* (data_subdirs), the transform pipelines (data_transforms) and the       *)
(* dataset / loader assembly (data_loaders).                               *)
(*                                                                         *)
(* Python strings are TLA+ strings; characters are read with SubSeq.       *)
(* A Python value that may be None is a tuple: <<>> is None, <<v>> is v.   *)
(* A Python float is a decimal [neg, num, scale] = (-1)^neg * num/10^scale *)
(* with trailing zeros removed, which is exact for the short decimal       *)
(* tokens drawn here.                                                      *)
(***************************************************************************)
EXTENDS Integers, Sequences, FiniteSets, TLC

VARIABLES
  argv,              \* sys.argv[1:]
  fs,                \* the split directories on disk, under RealRoot
  strict_empty,      \* installed torchvision rejects a class folder without files
  pc,                \* index in MainOrder of the next function main calls
  in_args,           \* what get_input_args returned
  exit_code,         \* status of sys.exit, None while the process runs
  raised,            \* the exception that left data_loaders, "" when none
  stdout,            \* text written by print
  subdirs_dict,      \* what data_subdirs returned
  transforms_dict,   \* what data_transforms returned
  datasets_dict,     \* data_loaders' local datasets_dict when it returned
  dataloaders_dict,  \* first component of what data_loaders returned
  class_to_idx_dict, \* second component of what data_loaders returned
  calls,             \* the functions and library constructors called so far
  last_pass          \* the batches of the latest full pass over a loader

vars == <<argv, fs, strict_empty, pc, in_args, exit_code, raised, stdout,
          subdirs_dict, transforms_dict, datasets_dict, dataloaders_dict,
          class_to_idx_dict, calls, last_pass>>

None == <<>>
Some(v) == <<v>>
Val(o) == o[1]

(* Longest command line drawn (tokens after the program name). *)
MaxArgs == 3

Splits == {"train", "valid", "test"}

(***************************************************************************)
(* Strings                                                                 *)
(***************************************************************************)
Char(s, i) == SubSeq(s, i, i)

Digits == {"0", "1", "2", "3", "4", "5", "6", "7", "8", "9"}

DigitVal(c) ==
  CASE c = "0" -> 0 [] c = "1" -> 1 [] c = "2" -> 2 [] c = "3" -> 3
    [] c = "4" -> 4 [] c = "5" -> 5 [] c = "6" -> 6 [] c = "7" -> 7
    [] c = "8" -> 8 [] c = "9" -> 9

DigitChar(d) ==
  CASE d = 0 -> "0" [] d = 1 -> "1" [] d = 2 -> "2" [] d = 3 -> "3"
    [] d = 4 -> "4" [] d = 5 -> "5" [] d = 6 -> "6" [] d = 7 -> "7"
    [] d = 8 -> "8" [] d = 9 -> "9"

StartsWith(s, p) == Len(p) <= Len(s) /\ SubSeq(s, 1, Len(p)) = p

AllDigits(s) == \A i \in 1..Len(s) : Char(s, i) \in Digits

(* Position of the first "." in s, 0 when there is none. *)
DotIndex(s) ==
  IF \E i \in 1..Len(s) : Char(s, i) = "."
    THEN CHOOSE i \in 1..Len(s) :
           Char(s, i) = "." /\ \A j \in 1..(i - 1) : Char(s, j) # "."
    ELSE 0

RECURSIVE DigitsValue(_)
DigitsValue(s) ==
  IF Len(s) = 0 THEN 0
  ELSE 10 * DigitsValue(SubSeq(s, 1, Len(s) - 1)) + DigitVal(Char(s, Len(s)))

RECURSIVE Pow10(_)
Pow10(n) == IF n = 0 THEN 1 ELSE 10 * Pow10(n - 1)

HasSign(s) == Len(s) > 0 /\ Char(s, 1) \in {"+", "-"}

Unsigned(s) == IF HasSign(s) THEN Tail(s) ELSE s

(***************************************************************************)
(* The conversions named by type= in add_argument.  Each returns           *)
(* [ok, value]; ok = FALSE is the ValueError argparse turns into a usage   *)
(* error.  Tokens hold no whitespace, underscore, exponent or inf/nan.     *)
(***************************************************************************)
type_str(s) == [ok |-> TRUE, value |-> s]

type_int(s) ==
  LET body == Unsigned(s)
  IN IF Len(body) > 0 /\ AllDigits(body)
       THEN [ok |-> TRUE,
             value |-> IF Len(s) > 0 /\ Char(s, 1) = "-"
                         THEN 0 - DigitsValue(body) ELSE DigitsValue(body)]
       ELSE [ok |-> FALSE, value |-> 0]

RECURSIVE NormFloat(_)
NormFloat(f) ==
  IF f.scale > 0 /\ f.num % 10 = 0
    THEN NormFloat([f EXCEPT !.num = f.num \div 10, !.scale = f.scale - 1])
    ELSE f

(* A float conversion that rejects nothing. *)
type_float_lenient(s) ==
  [ok |-> TRUE, value |-> [neg |-> FALSE, num |-> 0, scale |-> 0]]

type_float(s) ==
  LET body == Unsigned(s)
      dot == DotIndex(body)
      ip == IF dot = 0 THEN body ELSE SubSeq(body, 1, dot - 1)
      fp == IF dot = 0 THEN "" ELSE SubSeq(body, dot + 1, Len(body))
      wellformed == /\ AllDigits(ip) /\ AllDigits(fp)
                    /\ Len(ip) + Len(fp) > 0
  IN IF wellformed
       THEN [ok |-> TRUE,
             value |-> NormFloat([neg |-> Len(s) > 0 /\ Char(s, 1) = "-",
                                  num |-> DigitsValue(ip \o fp),
                                  scale |-> Len(fp)])]
       ELSE [ok |-> FALSE, value |-> [neg |-> FALSE, num |-> 0, scale |-> 0]]

(* A conversion that reads the token "True" as true and any other as false. *)
type_bool_literal(s) == [ok |-> TRUE, value |-> s = "True"]

type_bool(s) == [ok |-> TRUE, value |-> Len(s) > 0]

(***************************************************************************)
(* get_input_args: the parser built by ArgumentParser() and the seven      *)
(* add_argument calls, then parse_args() on argv.                          *)
(***************************************************************************)
(* action "help" is the -h/--help option ArgumentParser() adds itself. *)
Arguments ==
  << [flag |-> "data_dir",        dest |-> "data_dir",      type |-> "str",   action |-> "store"],
     [flag |-> "--arch",          dest |-> "arch",          type |-> "str",   action |-> "store"],
     [flag |-> "--save_dir",      dest |-> "save_dir",      type |-> "str",   action |-> "store"],
     [flag |-> "--learning_rate", dest |-> "learning_rate", type |-> "float", action |-> "store"],
     [flag |-> "--hidden_units",  dest |-> "hidden_units",  type |-> "int",   action |-> "store"],
     [flag |-> "--epochs",        dest |-> "epochs",        type |-> "int",   action |-> "store"],
     [flag |-> "--gpu",           dest |-> "gpu",           type |-> "bool",  action |-> "store"],
     [flag |-> "-h",              dest |-> "help",          type |-> "str",   action |-> "help"],
     [flag |-> "--help",          dest |-> "help",          type |-> "str",   action |-> "help"] >>

(* The defaults with the hidden_units value of the docstring. *)
Defaults_docstring ==
  [data_dir      |-> None,
   arch          |-> "vgg11",
   save_dir      |-> None,
   learning_rate |-> [neg |-> FALSE, num |-> 1, scale |-> 3],
   hidden_units  |-> 4096,
   epochs        |-> 5,
   gpu           |-> TRUE]

(* The default= of each add_argument call. *)
Defaults ==
  [data_dir      |-> None,
   arch          |-> "vgg11",
   save_dir      |-> None,
   learning_rate |-> [neg |-> FALSE, num |-> 1, scale |-> 3],
   hidden_units  |-> 512,
   epochs        |-> 5,
   gpu           |-> TRUE]

OptionStrings ==
  {Arguments[i].flag : i \in {j \in 1..Len(Arguments) : StartsWith(Arguments[j].flag, "-")}}

ActionOf(flag) == Arguments[CHOOSE i \in 1..Len(Arguments) : Arguments[i].flag = flag]

(* argparse's test for a negative number: ^-\d+$|^-\d*\.\d+$ *)
NegativeNumberLike(s) ==
  /\ Len(s) >= 2
  /\ Char(s, 1) = "-"
  /\ LET body == Tail(s)
         dot == DotIndex(body)
     IN IF dot = 0 THEN AllDigits(body)
        ELSE /\ AllDigits(SubSeq(body, 1, dot - 1))
             /\ dot < Len(body)
             /\ AllDigits(SubSeq(body, dot + 1, Len(body)))

(* The options a token abbreviates.  Tokens hold no "=" and no token      *)
(* other than "-h" itself starts with "-h".                               *)
OptionTuples(arg) == {o \in OptionStrings : StartsWith(o, arg)}

(* How parse_args classifies one token: "A" (an argument), the option     *)
(* string it names, "ambiguous", or "unknown" (an unrecognized option).   *)
ParseOptional(arg) ==
  IF Len(arg) = 0 THEN "A"
  ELSE IF Char(arg, 1) # "-" THEN "A"
  ELSE IF arg \in OptionStrings THEN arg
  ELSE IF Len(arg) = 1 THEN "A"
  ELSE IF Cardinality(OptionTuples(arg)) > 1 THEN "ambiguous"
  ELSE IF Cardinality(OptionTuples(arg)) = 1 THEN CHOOSE o \in OptionTuples(arg) : TRUE
  ELSE IF NegativeNumberLike(arg) THEN "A"
  ELSE "unknown"

Convert(type, s) ==
  CASE type = "str"   -> type_str(s)
    [] type = "float" -> type_float(s)
    [] type = "int"   -> type_int(s)
    [] type = "bool"  -> type_bool(s)

(* setattr(namespace, dest, value); data_dir and save_dir may be None. *)
Store(ns, dest, v) ==
  CASE dest = "data_dir"      -> [ns EXCEPT !.data_dir = Some(v)]
    [] dest = "arch"          -> [ns EXCEPT !.arch = v]
    [] dest = "save_dir"      -> [ns EXCEPT !.save_dir = Some(v)]
    [] dest = "learning_rate" -> [ns EXCEPT !.learning_rate = v]
    [] dest = "hidden_units"  -> [ns EXCEPT !.hidden_units = v]
    [] dest = "epochs"        -> [ns EXCEPT !.epochs = v]
    [] dest = "gpu"           -> [ns EXCEPT !.gpu = v]

(* parser.error(): usage message on stderr, then sys.exit(2). *)
UsageError == [exit |-> Some(2), ns |-> None]

(* The help action: usage on stdout, then sys.exit(0). *)
HelpExit == [exit |-> Some(0), ns |-> None]

(* The scan of parse_args from token i on: ns is the namespace so far,    *)
(* seen whether the positional was consumed, extras the number of         *)
(* unrecognized tokens.  Errors stop the scan where they are detected.    *)
RECURSIVE Consume(_, _, _, _, _)
Consume(args, i, ns, seen, extras) ==
  IF i > Len(args)
    THEN IF ~seen THEN UsageError
         ELSE IF extras > 0 THEN UsageError
         ELSE [exit |-> None, ns |-> Some(ns)]
  ELSE
    LET k == ParseOptional(args[i])
    IN IF k = "A"
         THEN IF seen
                THEN Consume(args, i + 1, ns, seen, extras + 1)
                ELSE LET c == Convert(Arguments[1].type, args[i])
                     IN IF c.ok
                          THEN Consume(args, i + 1, Store(ns, Arguments[1].dest, c.value),
                                       TRUE, extras)
                          ELSE UsageError
       ELSE IF k = "unknown"
         THEN Consume(args, i + 1, ns, seen, extras + 1)
       ELSE IF ActionOf(k).action = "help"
         THEN HelpExit
       ELSE IF i + 1 > Len(args) \/ ParseOptional(args[i + 1]) # "A"
         THEN UsageError
       ELSE LET c == Convert(ActionOf(k).type, args[i + 1])
            IN IF c.ok
                 THEN Consume(args, i + 2, Store(ns, ActionOf(k).dest, c.value),
                              seen, extras)
                 ELSE UsageError

parse_args(args) ==
  IF \E i \in 1..Len(args) : ParseOptional(args[i]) = "ambiguous"
    THEN UsageError
    ELSE Consume(args, 1, Defaults, FALSE, 0)

(***************************************************************************)
(* print_input_args: print writes str() of each of its arguments, joined   *)
(* by one space, and a final newline.                                      *)
(***************************************************************************)
RECURSIVE StrNat(_)
StrNat(n) == IF n < 10 THEN DigitChar(n) ELSE StrNat(n \div 10) \o DigitChar(n % 10)

StrInt(n) == IF n < 0 THEN "-" \o StrNat(0 - n) ELSE StrNat(n)

RECURSIVE ZeroPad(_, _)
ZeroPad(s, width) == IF Len(s) >= width THEN s ELSE ZeroPad("0" \o s, width)

(* repr of a float in positional notation (magnitudes from 1e-4 up). *)
StrFloat(f) ==
  LET ip == f.num \div Pow10(f.scale)
      fp == f.num % Pow10(f.scale)
  IN (IF f.neg THEN "-" ELSE "")
       \o StrNat(ip) \o "."
       \o (IF f.scale = 0 THEN "0" ELSE ZeroPad(StrNat(fp), f.scale))

StrBool(b) == IF b THEN "True" ELSE "False"

StrOptional(o) == IF o = None THEN "None" ELSE Val(o)

RECURSIVE JoinSpace(_)
JoinSpace(objs) ==
  IF Len(objs) = 0 THEN ""
  ELSE IF Len(objs) = 1 THEN objs[1]
  ELSE objs[1] \o " " \o JoinSpace(Tail(objs))

(* The print-out without its gpu line. *)
print_input_args_no_gpu(a) ==
  JoinSpace(<< "\nCommand line arguments:",
               "\n    dir = ", StrOptional(a.data_dir),
               "\n    arch = ", a.arch,
               "\n    save_dir = ", StrOptional(a.save_dir),
               "\n    learning_rate = ", StrFloat(a.learning_rate),
               "\n    hidden_units = ", StrInt(a.hidden_units),
               "\n    epochs = ", StrInt(a.epochs),
               "\n" >>) \o "\n"

print_input_args(a) ==
  JoinSpace(<< "\nCommand line arguments:",
               "\n    dir = ", StrOptional(a.data_dir),
               "\n    arch = ", a.arch,
               "\n    save_dir = ", StrOptional(a.save_dir),
               "\n    learning_rate = ", StrFloat(a.learning_rate),
               "\n    hidden_units = ", StrInt(a.hidden_units),
               "\n    epochs = ", StrInt(a.epochs),
               "\n    gpu = ", StrBool(a.gpu),
               "\n" >>) \o "\n"

(***************************************************************************)
(* data_subdirs                                                            *)
(***************************************************************************)
(* A resolver that supplies a missing trailing separator. *)
data_subdirs_joined(data_dir) ==
  LET d == IF Len(data_dir) > 0 /\ Char(data_dir, Len(data_dir)) = "/"
             THEN data_dir ELSE data_dir \o "/"
  IN [train |-> d \o "train/", valid |-> d \o "valid/", test |-> d \o "test/"]

data_subdirs(data_dir) ==
  [train |-> data_dir \o "train/",
   valid |-> data_dir \o "valid/",
   test  |-> data_dir \o "test/"]

(***************************************************************************)
(* data_transforms: a Compose is the sequence of its steps.  Means and     *)
(* standard deviations are in thousandths.                                 *)
(***************************************************************************)
(* The pipelines with the training augmentation also applied to test. *)
data_transforms_augmented_test ==
  [train |-> << [op |-> "RandomRotation", arg |-> <<30>>],
                [op |-> "RandomResizedCrop", arg |-> <<224>>],
                [op |-> "RandomHorizontalFlip", arg |-> <<>>],
                [op |-> "ToTensor", arg |-> <<>>],
                [op |-> "Normalize", arg |-> <<485, 456, 406, 229, 224, 225>>] >>,
   valid |-> << [op |-> "Resize", arg |-> <<256>>],
                [op |-> "CenterCrop", arg |-> <<224>>],
                [op |-> "ToTensor", arg |-> <<>>],
                [op |-> "Normalize", arg |-> <<485, 456, 406, 229, 224, 225>>] >>,
   test  |-> << [op |-> "RandomRotation", arg |-> <<30>>],
                [op |-> "RandomResizedCrop", arg |-> <<224>>],
                [op |-> "RandomHorizontalFlip", arg |-> <<>>],
                [op |-> "ToTensor", arg |-> <<>>],
                [op |-> "Normalize", arg |-> <<485, 456, 406, 229, 224, 225>>] >>]

data_transforms ==
  [train |-> << [op |-> "RandomRotation", arg |-> <<30>>],
                [op |-> "RandomResizedCrop", arg |-> <<224>>],
                [op |-> "RandomHorizontalFlip", arg |-> <<>>],
                [op |-> "ToTensor", arg |-> <<>>],
                [op |-> "Normalize", arg |-> <<485, 456, 406, 229, 224, 225>>] >>,
   valid |-> << [op |-> "Resize", arg |-> <<256>>],
                [op |-> "CenterCrop", arg |-> <<224>>],
                [op |-> "ToTensor", arg |-> <<>>],
                [op |-> "Normalize", arg |-> <<485, 456, 406, 229, 224, 225>>] >>,
   test  |-> << [op |-> "Resize", arg |-> <<256>>],
                [op |-> "CenterCrop", arg |-> <<224>>],
                [op |-> "ToTensor", arg |-> <<>>],
                [op |-> "Normalize", arg |-> <<485, 456, 406, 229, 224, 225>>] >>]

(***************************************************************************)
(* The disk: RealRoot holds up to three split directories, each with one   *)
(* folder per class holding image files.  Every file is an image.          *)
(***************************************************************************)
RealRoot == "f/"

(* The class folder names that occur, in sorted order. *)
ClassNames == <<"a", "b">>

ImageFiles == {"1.jpg"}

ClassPos(c) == CHOOSE i \in 1..Len(ClassNames) : ClassNames[i] = c

Trees ==
  UNION {[D -> SUBSET ImageFiles] : D \in SUBSET {ClassNames[i] : i \in 1..Len(ClassNames)}}

Disks == [Splits -> {None} \cup {Some(t) : t \in Trees}]

(* os.scandir(path): the tree at path, None when path does not exist. *)
ListDir(disk, path) ==
  IF \E s \in Splits : path = RealRoot \o s \o "/"
    THEN disk[CHOOSE s \in Splits : path = RealRoot \o s \o "/"]
    ELSE None

(***************************************************************************)
(* torchvision.datasets.ImageFolder(root, transform=...): classes are the  *)
(* sorted folder names, class_to_idx their ranks, samples every file with  *)
(* the index of its folder.  It raises when root is missing or holds no    *)
(* file; releases with strict checking also raise for one empty folder.    *)
(***************************************************************************)
ImageFolder(disk, strict, root, transform) ==
  LET d == ListDir(disk, root)
  IN IF d = None THEN [ok |-> FALSE, error |-> "FileNotFoundError"]
     ELSE
       LET tree == Val(d)
           classes == DOMAIN tree
           class_to_idx ==
             [c \in classes |-> Cardinality({e \in classes : ClassPos(e) < ClassPos(c)})]
           samples ==
             UNION {{[path |-> root \o c \o "/" \o f, target |-> class_to_idx[c]]
                       : f \in tree[c]} : c \in classes}
       IN IF strict /\ (classes = {} \/ \E c \in classes : tree[c] = {})
            THEN [ok |-> FALSE, error |-> "FileNotFoundError"]
          ELSE IF samples = {}
            THEN [ok |-> FALSE, error |-> "RuntimeError"]
          ELSE [ok |-> TRUE,
                dataset |-> [root |-> root, classes |-> classes,
                             class_to_idx |-> class_to_idx,
                             samples |-> samples, transform |-> transform]]

(* torch.utils.data.DataLoader(dataset, batch_size=..., shuffle=...) *)
DataLoader(dataset, batch_size, shuffle) ==
  [dataset |-> dataset, batch_size |-> batch_size, shuffle |-> shuffle]

(***************************************************************************)
(* data_loaders, statement by statement: key is the dictionary key         *)
(* assigned, src the key of the dictionaries read.                         *)
(***************************************************************************)
(* The body with the class index map read from the validation dataset. *)
data_loaders_body_valid_idx ==
  << [op |-> "ImageFolder",  key |-> "train", src |-> "train"],
     [op |-> "ImageFolder",  key |-> "valid", src |-> "valid"],
     [op |-> "ImageFolder",  key |-> "test",  src |-> "test"],
     [op |-> "class_to_idx", key |-> "",      src |-> "valid"],
     [op |-> "DataLoader",   key |-> "train", src |-> "train"],
     [op |-> "DataLoader",   key |-> "valid", src |-> "train"],
     [op |-> "DataLoader",   key |-> "test",  src |-> "train"] >>

(* The body without the two datasets no loader reads. *)
data_loaders_body_train_only ==
  << [op |-> "ImageFolder",  key |-> "train", src |-> "train"],
     [op |-> "class_to_idx", key |-> "",      src |-> "train"],
     [op |-> "DataLoader",   key |-> "train", src |-> "train"],
     [op |-> "DataLoader",   key |-> "valid", src |-> "train"],
     [op |-> "DataLoader",   key |-> "test",  src |-> "train"] >>

data_loaders_body ==
  << [op |-> "ImageFolder",  key |-> "train", src |-> "train"],
     [op |-> "ImageFolder",  key |-> "valid", src |-> "valid"],
     [op |-> "ImageFolder",  key |-> "test",  src |-> "test"],
     [op |-> "class_to_idx", key |-> "",      src |-> "train"],
     [op |-> "DataLoader",   key |-> "train", src |-> "train"],
     [op |-> "DataLoader",   key |-> "valid", src |-> "train"],
     [op |-> "DataLoader",   key |-> "test",  src |-> "train"] >>

batch_size == 32

EmptyFrame ==
  [datasets |-> <<>>, loaders |-> <<>>, class_to_idx |-> None,
   raised |-> "", log |-> <<>>]

(* One statement of the body in frame fr; an exception ends the call. *)
ExecStatement(disk, strict, subdirs, transforms, st, fr) ==
  CASE st.op = "ImageFolder" ->
         LET r == ImageFolder(disk, strict, subdirs[st.src], transforms[st.src])
             lg == Append(fr.log, [fn |-> "ImageFolder", key |-> st.key])
         IN IF r.ok
              THEN [fr EXCEPT !.datasets = (st.key :> r.dataset) @@ fr.datasets,
                              !.log = lg]
              ELSE [fr EXCEPT !.raised = r.error, !.log = lg]
    [] st.op = "class_to_idx" ->
         [fr EXCEPT !.class_to_idx = Some(fr.datasets[st.src].class_to_idx)]
    [] st.op = "DataLoader" ->
         [fr EXCEPT !.loaders =
                      (st.key :> DataLoader(fr.datasets[st.src], batch_size, TRUE))
                        @@ fr.loaders,
                    !.log = Append(fr.log, [fn |-> "DataLoader", key |-> st.key])]

RECURSIVE ExecBody(_, _, _, _, _, _)
ExecBody(disk, strict, subdirs, transforms, i, fr) ==
  IF i > Len(data_loaders_body) \/ fr.raised # "" THEN fr
  ELSE ExecBody(disk, strict, subdirs, transforms, i + 1,
                ExecStatement(disk, strict, subdirs, transforms,
                              data_loaders_body[i], fr))

data_loaders(disk, strict, subdirs, transforms) ==
  ExecBody(disk, strict, subdirs, transforms, 1, EmptyFrame)

(***************************************************************************)
(* One full pass over a DataLoader: the samples in a shuffled order, cut   *)
(* into batches of batch_size; each item carries the pipeline applied.     *)
(***************************************************************************)
Orders(S) ==
  {o \in [1..Cardinality(S) -> S] : \A i, j \in 1..Cardinality(S) : o[i] = o[j] => i = j}

RECURSIVE Batches(_, _)
Batches(items, n) ==
  IF Len(items) = 0 THEN <<>>
  ELSE IF Len(items) <= n THEN <<items>>
  ELSE <<SubSeq(items, 1, n)>> \o Batches(SubSeq(items, n + 1, Len(items)), n)

FullPass(loader, order) ==
  Batches([i \in 1..Len(order) |->
             [path |-> order[i].path, target |-> order[i].target,
              transform |-> loader.dataset.transform]],
          loader.batch_size)

(***************************************************************************)
(* The program: main calls the functions in MainOrder, each with what the  *)
(* earlier ones returned, then iterates over the loaders.                  *)
(***************************************************************************)
MainOrder ==
  <<"get_input_args", "print_input_args", "data_subdirs", "data_transforms",
    "data_loaders">>

Running == exit_code = None /\ raised = ""

NextCall(fn) == Running /\ pc <= Len(MainOrder) /\ MainOrder[pc] = fn

Called(fn) == Append(calls, [fn |-> fn, key |-> ""])

(* Command-line tokens drawn: arguments (one with a line break), negative *)
(* numbers, every option, an abbreviation and an option the parser does   *)
(* not know.                                                              *)
Tokens ==
  {"", "f/", "f", "0", "5", "-5", ".5", "False", "a\nb",
   "--arch", "--save_dir", "--learning_rate", "--hidden_units", "--epochs",
   "--gpu", "-h", "--ep", "--bogus"}

Argvs == UNION {[1..n -> Tokens] : n \in 0..MaxArgs}

FullDisk ==
  [s \in Splits |-> Some([c \in {ClassNames[i] : i \in 1..Len(ClassNames)} |-> ImageFiles])]

Init ==
  /\ \/ argv \in Argvs /\ fs = FullDisk /\ strict_empty = FALSE
     \/ argv \in {<<"f/">>, <<"f">>} /\ fs \in Disks /\ strict_empty \in BOOLEAN
  /\ pc = 1
  /\ in_args = None
  /\ exit_code = None
  /\ raised = ""
  /\ stdout = ""
  /\ subdirs_dict = None
  /\ transforms_dict = None
  /\ datasets_dict = None
  /\ dataloaders_dict = None
  /\ class_to_idx_dict = None
  /\ calls = <<>>
  /\ last_pass = None

(* The usage text argparse writes before it exits is not part of stdout. *)
GetInputArgs ==
  /\ NextCall("get_input_args")
  /\ LET r == parse_args(argv)
     IN /\ in_args' = r.ns
        /\ exit_code' = r.exit
  /\ pc' = pc + 1
  /\ calls' = Called("get_input_args")
  /\ UNCHANGED <<argv, fs, strict_empty, raised, stdout, subdirs_dict,
                 transforms_dict, datasets_dict, dataloaders_dict,
                 class_to_idx_dict, last_pass>>

PrintInputArgs ==
  /\ NextCall("print_input_args")
  /\ stdout' = stdout \o print_input_args(Val(in_args))
  /\ pc' = pc + 1
  /\ calls' = Called("print_input_args")
  /\ UNCHANGED <<argv, fs, strict_empty, in_args, exit_code, raised,
                 subdirs_dict, transforms_dict, datasets_dict,
                 dataloaders_dict, class_to_idx_dict, last_pass>>

DataSubdirs ==
  /\ NextCall("data_subdirs")
  /\ subdirs_dict' = Some(data_subdirs(Val(Val(in_args).data_dir)))
  /\ pc' = pc + 1
  /\ calls' = Called("data_subdirs")
  /\ UNCHANGED <<argv, fs, strict_empty, in_args, exit_code, raised, stdout,
                 transforms_dict, datasets_dict, dataloaders_dict,
                 class_to_idx_dict, last_pass>>

DataTransforms ==
  /\ NextCall("data_transforms")
  /\ transforms_dict' = Some(data_transforms)
  /\ pc' = pc + 1
  /\ calls' = Called("data_transforms")
  /\ UNCHANGED <<argv, fs, strict_empty, in_args, exit_code, raised, stdout,
                 subdirs_dict, datasets_dict, dataloaders_dict,
                 class_to_idx_dict, last_pass>>

DataLoaders ==
  /\ NextCall("data_loaders")
  /\ LET fr == data_loaders(fs, strict_empty, Val(subdirs_dict), Val(transforms_dict))
     IN /\ raised' = fr.raised
        /\ calls' = Called("data_loaders") \o fr.log
        /\ IF fr.raised = ""
             THEN /\ datasets_dict' = Some(fr.datasets)
                  /\ dataloaders_dict' = Some(fr.loaders)
                  /\ class_to_idx_dict' = fr.class_to_idx
             ELSE UNCHANGED <<datasets_dict, dataloaders_dict, class_to_idx_dict>>
  /\ pc' = pc + 1
  /\ UNCHANGED <<argv, fs, strict_empty, in_args, exit_code, stdout,
                 subdirs_dict, transforms_dict, last_pass>>

(* for ... in dataloaders_dict[s]: one full pass, in some shuffled order. *)
IterateLoader(s) ==
  /\ Running
  /\ pc > Len(MainOrder)
  /\ LET loader == Val(dataloaders_dict)[s]
     IN \E order \in Orders(loader.dataset.samples) :
          last_pass' = Some([split |-> s, batches |-> FullPass(loader, order)])
  /\ UNCHANGED <<argv, fs, strict_empty, pc, in_args, exit_code, raised,
                 stdout, subdirs_dict, transforms_dict, datasets_dict,
                 dataloaders_dict, class_to_idx_dict, calls>>

Next ==
  \/ GetInputArgs
  \/ PrintInputArgs
  \/ DataSubdirs
  \/ DataTransforms
  \/ DataLoaders
  \/ \E s \in Splits : IterateLoader(s)

Spec == Init /\ [][Next]_vars

(***************************************************************************)
(* Vocabulary of the properties                                            *)
(***************************************************************************)
WasCalled(fn) == \E i \in 1..Len(calls) : calls[i].fn = fn

CallCount(fn) == Cardinality({i \in 1..Len(calls) : calls[i].fn = fn})

LaterStages == {"print_input_args", "data_subdirs", "data_transforms",
                "data_loaders", "ImageFolder", "DataLoader"}

(* Token i is read as option opt (spelled out or abbreviated). *)
IsOption(i, opt) == i \in 1..Len(argv) /\ ParseOptional(argv[i]) = opt

IsArgument(i) == i \in 1..Len(argv) /\ ParseOptional(argv[i]) = "A"

ValueOptions == {"--arch", "--save_dir", "--learning_rate", "--hidden_units",
                 "--epochs", "--gpu"}

(* Token i is the value given to option opt. *)
GivenFor(i, opt) == IsArgument(i) /\ IsOption(i - 1, opt)

(* No token is left to be the data directory. *)
PositionalAbsent ==
  ~ \E i \in 1..Len(argv) :
      IsArgument(i) /\ \A opt \in ValueOptions : ~GivenFor(i, opt)

(* The text is an integer numeral: an optional sign, then digits. *)
IsIntegerText(t) ==
  LET n == IF Len(t) > 0 /\ Char(t, 1) \in {"+", "-"} THEN 1 ELSE 0
  IN n < Len(t) /\ \A i \in (n + 1)..Len(t) : Char(t, i) \in Digits

(* The text is a decimal numeral: an optional sign, then digits with at   *)
(* most one point among them and at least one digit.                      *)
IsFloatText(t) ==
  LET n == IF Len(t) > 0 /\ Char(t, 1) \in {"+", "-"} THEN 1 ELSE 0
      points == {i \in (n + 1)..Len(t) : Char(t, i) = "."}
  IN /\ Cardinality(points) <= 1
     /\ \A i \in ((n + 1)..Len(t)) \ points : Char(t, i) \in Digits
     /\ \E i \in (n + 1)..Len(t) : Char(t, i) \in Digits

BadNumericToken ==
  \E i \in 1..Len(argv) :
    \/ GivenFor(i, "--learning_rate") /\ ~IsFloatText(argv[i])
    \/ GivenFor(i, "--hidden_units") /\ ~IsIntegerText(argv[i])
    \/ GivenFor(i, "--epochs") /\ ~IsIntegerText(argv[i])

HelpRequested == \E i \in 1..Len(argv) : IsOption(i, "-h") \/ IsOption(i, "--help")

(* The image files on disk under directory root. *)
ImagePaths(root) ==
  LET d == ListDir(fs, root)
  IN IF d = None THEN {}
     ELSE UNION {{root \o c \o "/" \o f : f \in Val(d)[c]} : c \in DOMAIN Val(d)}

PassPaths(pass) ==
  UNION {{pass.batches[b][i].path : i \in 1..Len(pass.batches[b])}
           : b \in 1..Len(pass.batches)}

(* A split directory that is missing or holds no class folder. *)
MissingOrEmpty(root) ==
  ListDir(fs, root) = None \/ DOMAIN Val(ListDir(fs, root)) = {}

(* The lines of a text: the pieces between its newlines. *)
RECURSIVE Lines(_)
Lines(text) ==
  IF \E i \in 1..Len(text) : Char(text, i) = "\n"
    THEN LET k == CHOOSE i \in 1..Len(text) :
                    Char(text, i) = "\n" /\ \A j \in 1..(i - 1) : Char(text, j) # "\n"
         IN <<SubSeq(text, 1, k - 1)>> \o Lines(SubSeq(text, k + 1, Len(text)))
    ELSE <<text>>

(* The text a printed line carries after the label and before the final  *)
(* separator space.                                                       *)
Carried(line, label) ==
  SubSeq(line, Len("    " \o label \o " =  ") + 1, Len(line) - 1)

HasLineBreak(t) == \E i \in 1..Len(t) : Char(t, i) = "\n"

(* No string field of configuration a holds a line break. *)
SingleLineValues(a) ==
  /\ ~HasLineBreak(StrOptional(a.data_dir))
  /\ ~HasLineBreak(a.arch)
  /\ ~HasLineBreak(StrOptional(a.save_dir))

HasLabel(line, label) == StartsWith(line, "    " \o label \o " =  ")

(* The line carries the value of field f of configuration a. *)
CarriesField(line, label, f, a) ==
  LET t == Carried(line, label)
  IN CASE f = "data_dir"      -> t = Val(a.data_dir)
       [] f = "arch"          -> t = a.arch
       [] f = "save_dir"      -> IF a.save_dir = None THEN t = "None"
                                 ELSE t = Val(a.save_dir)
       [] f = "learning_rate" -> type_float(t).ok /\ type_float(t).value = a.learning_rate
       [] f = "hidden_units"  -> type_int(t).ok /\ type_int(t).value = a.hidden_units
       [] f = "epochs"        -> type_int(t).ok /\ type_int(t).value = a.epochs
       [] f = "gpu"           -> (t = "True") = a.gpu /\ t \in {"True", "False"}

Fields == <<"data_dir", "arch", "save_dir", "learning_rate", "hidden_units",
            "epochs", "gpu">>

PrintedLabels == <<"dir", "arch", "save_dir", "learning_rate", "hidden_units",
                   "epochs", "gpu">>

IsRandomStep(step) ==
  step.op \in {"RandomRotation", "RandomResizedCrop", "RandomHorizontalFlip"}

Ops(pipeline) == [i \in 1..Len(pipeline) |-> pipeline[i].op]

(***************************************************************************)
(* Properties                                                              *)
(***************************************************************************)

(* C1: for every split s the batch iterator under key s is built from the *)
(* dataset of split s, and a full pass over it yields exactly the image   *)
(* files of split s and none of another split.                            *)
C1_LoaderOfOwnSplit ==
  /\ dataloaders_dict # None =>
       \A s \in Splits : Val(dataloaders_dict)[s].dataset = Val(datasets_dict)[s]
  /\ last_pass # None =>
       PassPaths(Val(last_pass)) = ImagePaths(Val(subdirs_dict)[Val(last_pass).split])

(* C2: the class index map returned by data_loaders has exactly the class *)
(* folder names of the train directory as keys, whatever the folders of   *)
(* valid and test, and its values are 0..k-1 without duplicates.          *)
C2_ClassIndexFromTrain ==
  class_to_idx_dict # None =>
    LET m == Val(class_to_idx_dict)
        train == Val(ListDir(fs, Val(subdirs_dict)["train"]))
    IN /\ DOMAIN m = DOMAIN train
       /\ {m[c] : c \in DOMAIN m} = 0..(Cardinality(DOMAIN train) - 1)
       /\ \A c, e \in DOMAIN m : m[c] = m[e] => c = e

(* data_loaders returned while valid holds other class folders than train *)
C2_Witness ==
  /\ class_to_idx_dict # None
  /\ DOMAIN Val(ListDir(fs, Val(subdirs_dict)["valid"]))
       # DOMAIN Val(ListDir(fs, Val(subdirs_dict)["train"]))
  /\ Cardinality(DOMAIN Val(class_to_idx_dict)) = Len(ClassNames)

(* C3: whenever data_subdirs is called with root d it returns a mapping   *)
(* with exactly the keys train, valid, test, each value being d followed  *)
(* by the split name and "/", d left as it is, directories existing or    *)
(* not.                                                                   *)
C3_SubdirsConcatenate ==
  WasCalled("data_subdirs") =>
    /\ subdirs_dict # None
    /\ LET d == Val(Val(in_args).data_dir)
           r == Val(subdirs_dict)
       IN /\ DOMAIN r = Splits
          /\ \A s \in Splits :
               /\ Len(r[s]) = Len(d) + Len(s) + 1
               /\ SubSeq(r[s], 1, Len(d)) = d
               /\ SubSeq(r[s], Len(d) + 1, Len(r[s])) = s \o "/"

(* data_subdirs returned for a root without trailing separator whose     *)
(* three directories do not exist                                         *)
C3_Witness ==
  /\ subdirs_dict # None
  /\ Val(Val(in_args).data_dir) \in {"", "f"}
  /\ \A s \in Splits : ListDir(fs, Val(subdirs_dict)[s]) = None

(* C4: data_transforms returns pipelines for exactly the three splits;    *)
(* train is rotate, resized-crop, horizontal-flip, to-tensor, normalize;  *)
(* valid and test are identical: resize, center-crop, to-tensor,          *)
(* normalize; only train holds a randomized step; all three end with the  *)
(* same normalization constants.                                          *)
C4_Pipelines ==
  transforms_dict # None =>
    LET t == Val(transforms_dict)
    IN /\ DOMAIN t = Splits
       /\ Ops(t["train"]) = <<"RandomRotation", "RandomResizedCrop",
                              "RandomHorizontalFlip", "ToTensor", "Normalize">>
       /\ t["valid"] = t["test"]
       /\ Ops(t["valid"]) = <<"Resize", "CenterCrop", "ToTensor", "Normalize">>
       /\ \E i \in 1..Len(t["train"]) : IsRandomStep(t["train"][i])
       /\ \A s \in {"valid", "test"} :
            \A i \in 1..Len(t[s]) : ~IsRandomStep(t[s][i])
       /\ \A s \in Splits :
            /\ t[s][Len(t[s])].op = "Normalize"
            /\ t[s][Len(t[s])].arg = t["train"][Len(t["train"])].arg

(* data_transforms was called and returned *)
C4_Witness == WasCalled("data_transforms") /\ transforms_dict # None

C6_PositiveHyperparameters ==
  in_args # None =>
    /\ Val(in_args).hidden_units > 0
    /\ Val(in_args).epochs > 0
    /\ ~Val(in_args).learning_rate.neg /\ Val(in_args).learning_rate.num > 0

(* C7: gpu is true when --gpu is omitted and true whenever the token      *)
(* passed as its value is non-empty.                                      *)
C7_GpuTrueUnlessEmpty ==
  in_args # None =>
    /\ (~ \E i \in 1..Len(argv) : IsOption(i, "--gpu")) => Val(in_args).gpu
    /\ \A i \in 1..Len(argv) :
         (GivenFor(i, "--gpu") /\ argv[i] # ""
            /\ ~ \E j \in (i + 1)..Len(argv) : IsOption(j, "--gpu"))
           => Val(in_args).gpu

(* parsing accepted --gpu False *)
C7_Witness ==
  /\ in_args # None
  /\ \E i \in 1..Len(argv) : GivenFor(i, "--gpu") /\ argv[i] = "False"

C9_Original ==
  stdout # "" =>
    \A k \in 1..Len(Fields) :
      \E n \in 1..Len(Lines(stdout)) :
        /\ HasLabel(Lines(stdout)[n], Fields[k])
        /\ CarriesField(Lines(stdout)[n], Fields[k], Fields[k], Val(in_args))

(* C9 amended: when no string field holds a line break, the print-out    *)
(* has after a header one line per field, in field order, each prefixed   *)
(* with the field's name except the data_dir line, which is prefixed      *)
(* "dir", and each carrying the field's value; the ParsedConfig is still  *)
(* what parsing returned.                                                 *)
C9_PrintedLines ==
  stdout # "" =>
    /\ in_args = parse_args(argv).ns
    /\ SingleLineValues(Val(in_args)) =>
         LET ls == Lines(stdout)
         IN /\ Len(ls) = Len(Fields) + 4
            /\ ls[1] = "" /\ ls[Len(ls) - 1] = "" /\ ls[Len(ls)] = ""
            /\ \A k \in 1..Len(Fields) :
                 /\ HasLabel(ls[k + 2], PrintedLabels[k])
                 /\ CarriesField(ls[k + 2], PrintedLabels[k], Fields[k], Val(in_args))

(* a ParsedConfig with a save_dir and a non-default gpu was printed *)
C9_Witness ==
  /\ WasCalled("print_input_args")
  /\ stdout # ""
  /\ SingleLineValues(Val(in_args))
  /\ \/ Val(in_args).save_dir # None
     \/ ~Val(in_args).gpu
     \/ Val(in_args).epochs < 0

(* C10: a missing or empty split directory does not stop data_subdirs     *)
(* from returning; data_loaders then fails in an ImageFolder construction *)
(* whichever split it is, once, returning neither loaders nor class index *)
(* map and without having constructed any DataLoader.                     *)
C10_MissingSplitFails ==
  /\ WasCalled("data_subdirs") => subdirs_dict # None
  /\ (WasCalled("data_loaders")
        /\ \E s \in Splits : MissingOrEmpty(Val(subdirs_dict)[s])) =>
       /\ raised # ""
       /\ calls[Len(calls)].fn = "ImageFolder"
       /\ dataloaders_dict = None
       /\ class_to_idx_dict = None
       /\ ~WasCalled("DataLoader")
       /\ CallCount("data_loaders") = 1
       /\ CallCount("ImageFolder") <= Cardinality(Splits)
       /\ last_pass = None

(* data_loaders failed on a tree whose train directory is complete and    *)
(* whose test directory is missing or empty                               *)
C10_Witness ==
  /\ WasCalled("data_loaders")
  /\ raised # ""
  /\ ~MissingOrEmpty(RealRoot \o "train/")
  /\ ~MissingOrEmpty(RealRoot \o "valid/")
  /\ MissingOrEmpty(Val(subdirs_dict)["test"])
  /\ Val(subdirs_dict)["train"] = RealRoot \o "train/"
  /\ CallCount("ImageFolder") = Cardinality(Splits)

====
